---- MODULE Spec2Model ----
(***************************************************************************)
(* Model of src/text_analyzer.py: fetch texts over HTTP, run the MeCab     *)
(* morphological analyzer over them, keep nouns, verbs and adjectives,     *)
(* and render the kept words as a word cloud image.                        *)
(*                                                                         *)
(* Strings the code splits, compares or joins are sequences of characters. *)
(* A character is a one-element token: the separators are "\t", "\n", "-"  *)
(* and " "; a Japanese character is written by its reading ("mei" "shi"    *)
(* is 名詞).                                                               *)
(***************************************************************************)
EXTENDS Integers, Sequences, FiniteSets, TLC

VARIABLES
    pc,           \* position of the script
    response,     \* what requests.get produced (line 83)
    gets,         \* number of HTTP GETs issued so far
    texts,        \* value returned by fetch_texts / the strings argument
    output_path,  \* the output_path argument of generate_wordcloud
    i,            \* index of the text the outer loop is at (line 17)
    lineNo,       \* index of the analyzer line the inner loop is at (line 24)
    lines,        \* analyzer lines of the current text still to visit
    words,        \* result_words (line 15), then words (line 52)
    text,         \* the space-joined words (line 55)
    fontPresent,  \* whether ./fonts/NotoSansJP-Regular.ttf exists
    saved,        \* paths of the image files written by savefig
    trace,        \* the externally visible calls made so far, in order
    failedAt      \* the step an uncaught exception ended the run at

vars == <<pc, response, gets, texts, output_path, i, lineNo, lines, words,
          text, fontPresent, saved, trace, failedAt>>

---------------------------------------------------------------------------
(* Bounds *)

\* longest list of strings handed to the tokenizer
MaxTexts == 2

---------------------------------------------------------------------------
(* Characters and literals of the source *)

TAB == "\t"
NL == "\n"
HYPHEN == "-"
SPACE == " "
\* U+2003 EM SPACE: white space to str.strip, an ordinary symbol to MeCab
EMSP == "emsp"

\* characters str.strip() removes
Whitespace == {SPACE, TAB, NL, EMSP}

EOS == <<"E", "O", "S">>

\* 名詞
Noun == <<"mei", "shi">>
\* 動詞
Verb == <<"dou", "shi">>
\* 形容詞
Adjective == <<"kei", "you", "shi">>
\* the list literal of line 40
KeptPos == {Noun, Verb, Adjective}
\* 非自立, the marker of the disabled check of line 41
HiJiritsu == <<"hi", "ji", "ritsu">>

\* len(parts) < 5 (line 30)
MinFields == 5
\* parts[4] (line 36), counted from 1
PosField == 5
\* response.status_code == 200 (line 84)
HTTP_OK == 200

DefaultPath == "wordcloud.png"
Paths == {DefaultPath, "out.png"}

---------------------------------------------------------------------------
(* Python string operations used by the code *)

\* sep in s
Has(s, sep) == \E k \in 1..Len(s) : s[k] = sep

FirstIndex(s, sep) == CHOOSE k \in 1..Len(s) :
                          s[k] = sep /\ \A m \in 1..(k - 1) : s[m] # sep

\* s.split(sep) for a one-character sep: empty pieces are kept, and a string
\* without sep (the empty string too) gives one piece
RECURSIVE split(_, _)
split(s, sep) ==
    IF Has(s, sep)
    THEN LET k == FirstIndex(s, sep)
         IN  <<SubSeq(s, 1, k - 1)>> \o split(SubSeq(s, k + 1, Len(s)), sep)
    ELSE <<s>>

\* sep.join(parts)
RECURSIVE join(_, _)
join(parts, sep) ==
    IF parts = <<>> THEN <<>>
    ELSE IF Len(parts) = 1 THEN parts[1]
    ELSE parts[1] \o <<sep>> \o join(Tail(parts), sep)

\* s.strip(): drop leading and trailing white space
RECURSIVE lstrip(_)
lstrip(s) == IF s # <<>> /\ Head(s) \in Whitespace THEN lstrip(Tail(s)) ELSE s

RECURSIVE rstrip(_)
rstrip(s) ==
    IF s # <<>> /\ s[Len(s)] \in Whitespace
    THEN rstrip(SubSeq(s, 1, Len(s) - 1))
    ELSE s

strip(s) == rstrip(lstrip(s))

---------------------------------------------------------------------------
(* The analyzer: MeCab.Tagger with the unidic-lite dictionary (line 8)     *)

\* part-of-speech descriptors as the dictionary writes them
\* 名詞-普通名詞-一般
NounCommon == Noun \o <<HYPHEN, "fu", "tsuu">> \o Noun \o <<HYPHEN, "ichi", "han">>
\* 動詞-一般
VerbGeneral == Verb \o <<HYPHEN, "ichi", "han">>
\* 動詞-非自立可能
VerbDependent == Verb \o <<HYPHEN>> \o HiJiritsu \o <<"ka", "nou">>
\* 形容詞-非自立可能
AdjectiveDependent == Adjective \o <<HYPHEN>> \o HiJiritsu \o <<"ka", "nou">>
\* 助詞-格助詞
Particle == <<"jo", "shi", HYPHEN, "kaku", "jo", "shi">>
\* 代名詞
Pronoun == <<"dai">> \o Noun
\* 助動詞
AuxVerb == <<"jo">> \o Verb
\* 接尾辞-名詞的
SuffixNounLike == <<"setsu", "bi", "ji", HYPHEN>> \o Noun \o <<"teki">>

\* one analyzer line of the dictionary's format: surface, pronunciation,
\* lemma reading, lemma, part of speech, conjugation type, conjugation form,
\* accent
Morpheme(surface, reading, pos) ==
    <<surface, reading, reading, surface, pos, <<>>, <<>>, <<"0">>>>

Neko == Morpheme(<<"neko">>, <<"NE", "KO">>, NounCommon)
Ga == Morpheme(<<"ga">>, <<"GA">>, Particle)
Hashiru == Morpheme(<<"hashi", "ru">>, <<"HA", "SHI", "RU">>, VerbGeneral)
Iru == Morpheme(<<"i", "ru">>, <<"I", "RU">>, VerbDependent)
Yoi == Morpheme(<<"yo", "i">>, <<"YO", "I">>, AdjectiveDependent)
Kore == Morpheme(<<"ko", "re">>, <<"KO", "RE">>, Pronoun)
Da == Morpheme(<<"da">>, <<"DA">>, AuxVerb)
Sa == Morpheme(<<"sa">>, <<"SA">>, SuffixNounLike)

\* The texts the model draws from, each with the fields of the lines the
\* analyzer prints for it.  The last five are lines of other output formats
\* and dictionaries.
Morphemes(t) ==
    CASE t = "neko ga hashiru" -> <<Neko, Ga, Hashiru>>
      [] t = "neko neko" -> <<Neko, Neko>>
      [] t = "yoi" -> <<Yoi>>
      [] t = "hashitte iru" -> <<Hashiru, Iru>>
      [] t = "kore da" -> <<Kore, Da>>
      [] t = "" -> <<>>
      \* exactly five fields, a descriptor without hyphen
      [] t = "five fields" -> <<<<<<"ki">>, <<"KI">>, <<"KI">>, <<"ki">>, Adjective>>>>
      \* four fields: the descriptor is the fourth
      [] t = "four fields" -> <<<<<<"neko">>, <<"NE", "KO">>, <<"neko">>, Noun>>,
                                <<<<"neko">>, Noun, Verb, NounCommon>>>>
      \* surface and a comma-separated feature string (ipadic)
      [] t = "two fields" -> <<<<<<"neko">>, Noun \o <<",", "ichi", "han">>>>>>
      \* the label in other fields than the fifth
      [] t = "label elsewhere" -> <<<<Noun, Noun, Noun, Noun, Sa[PosField], Noun>>,
                                    <<<<"sa">>, Verb, <<>>, VerbGeneral, <<>>, <<>>>>>>
      \* an unknown symbol the analyzer tags as a noun
      [] t = "em space" -> <<Morpheme(<<EMSP>>, <<EMSP>>, NounCommon)>>

Corpus == {"neko ga hashiru", "neko neko", "yoi", "hashitte iru", "kore da", "",
           "five fields", "four fields", "two fields", "label elsewhere",
           "em space"}

\* the fields of every line of the analyzer's output for text t: its
\* morphemes, the end-of-output marker, and the empty piece after the final
\* line break
OutputFields(t) == Morphemes(t) \o <<<<EOS>>, <<<<>>>>>>

\* t.parse(text) (line 19): fields separated by tabs, lines by line breaks
RECURSIVE RenderLines(_)
RenderLines(ls) ==
    IF ls = <<>> THEN <<>> ELSE <<join(Head(ls), TAB)>> \o RenderLines(Tail(ls))

parse(t) == join(RenderLines(OutputFields(t)), NL)

---------------------------------------------------------------------------
(* Values *)

\* lists of at most n texts
RECURSIVE ListsUpTo(_)
ListsUpTo(n) ==
    IF n = 0 THEN {<<>>}
    ELSE LET shorter == ListsUpTo(n - 1)
         IN  shorter \cup {Append(l, t) : l \in {m \in shorter : Len(m) = n - 1},
                                          t \in Corpus}

TextLists == ListsUpTo(MaxTexts)

\* a parsed JSON value: an array of strings, or a value a for loop cannot
\* iterate (a number)
Array(items) == [kind |-> "array", items |-> items]
Number == [kind |-> "number", items |-> <<>>]
JsonValues == {Array(l) : l \in TextLists} \cup {Number}

\* a response body: JSON text of a value, or text that is no JSON
Body(value) == [valid |-> TRUE, value |-> value]
Malformed == [valid |-> FALSE, value |-> Array(<<>>)]
Bodies == {Body(v) : v \in JsonValues} \cup {Malformed}

Statuses == {HTTP_OK, 204, 404, 500}

\* what requests.get(url) does: it returns a response, or raises
NoResponse == [raised |-> FALSE, status |-> 0, body |-> Malformed]
Raised == [raised |-> TRUE, status |-> 0, body |-> Malformed]
Responses == {[raised |-> FALSE, status |-> st, body |-> b] :
                 st \in Statuses, b \in Bodies}
GetOutcomes == Responses \cup {Raised}

---------------------------------------------------------------------------
(* analyze_strings, one line of the analyzer's output (lines 25-42) *)

\* line 37
pos_of(pos_info) ==
    IF Has(pos_info, HYPHEN) THEN split(pos_info, HYPHEN)[1] ELSE pos_info

\* sub in s
Contains(s, sub) ==
    \E k \in 1..(Len(s) - Len(sub) + 1) : SubSeq(s, k, k + Len(sub) - 1) = sub

\* line_words testing whether a label occurs in the descriptor
line_words_substring(line) ==
    IF line = EOS \/ line = <<>> THEN <<>>
    ELSE LET parts == split(line, TAB)
         IN  IF Len(parts) < MinFields THEN <<>>
             ELSE IF \E label \in KeptPos : Contains(parts[PosField], label)
                  THEN <<parts[1]>>
                  ELSE <<>>

\* line_words reading the descriptor from the last field of any line that
\* has a tab
line_words_last_field(line) ==
    IF line = EOS \/ line = <<>> THEN <<>>
    ELSE LET parts == split(line, TAB)
         IN  IF Len(parts) < 2 THEN <<>>
             ELSE IF pos_of(parts[IF Len(parts) < MinFields THEN Len(parts)
                                  ELSE PosField]) \in KeptPos
                  THEN <<parts[1]>>
                  ELSE <<>>

\* the words one line adds to result_words: none or one
line_words(line) ==
    IF line = EOS \/ line = <<>> THEN <<>>
    ELSE LET parts == split(line, TAB)
         IN  IF Len(parts) < MinFields THEN <<>>
             ELSE LET word == parts[1]
                      pos_info == parts[PosField]
                      pos == pos_of(pos_info)
                  IN  IF pos \in KeptPos THEN <<word>> ELSE <<>>

---------------------------------------------------------------------------
(* The steps of the script *)

\* the run ends with an uncaught exception raised by step
Fail(step) ==
    /\ pc' = "failed"
    /\ failedAt' = step

\* is_success accepting every 2xx status, as response.ok does
is_success_2xx(status) == status \in 200..299

\* response.status_code == 200 (line 84)
is_success(status) == status = HTTP_OK

\* lines 83-88 once requests.get has produced r
fetch_result(r) ==
    /\ response' = r
    /\ gets' = gets + 1
    /\ IF r.raised
       THEN /\ Fail("fetch")
            /\ trace' = Append(trace, "get")
            /\ texts' = texts
       ELSE IF is_success(r.status)
       THEN IF r.body.valid
            THEN /\ pc' = "analyze"
                 /\ failedAt' = failedAt
                 /\ trace' = trace \o <<"get", "json">>
                 /\ texts' = r.body.value
            ELSE /\ Fail("fetch")
                 /\ trace' = trace \o <<"get", "json">>
                 /\ texts' = texts
       ELSE /\ pc' = "analyze"
            /\ failedAt' = failedAt
            /\ trace' = trace \o <<"get", "print failed">>
            /\ texts' = Array(<<>>)
    /\ UNCHANGED <<output_path, i, lineNo, lines, words, text, fontPresent, saved>>

\* fetch_texts with response.raise_for_status() before the status check
fetch_texts_raise_for_status ==
    /\ pc = "main"
    /\ \E r \in GetOutcomes :
          IF ~r.raised /\ r.status >= 400
          THEN /\ response' = r
               /\ gets' = gets + 1
               /\ Fail("fetch")
               /\ trace' = Append(trace, "get")
               /\ UNCHANGED <<texts, output_path, i, lineNo, lines, words, text,
                              fontPresent, saved>>
          ELSE fetch_result(r)

\* fetch_texts with a second attempt after a first response that is not 200
fetch_texts_retry ==
    /\ pc = "main"
    /\ \E r \in GetOutcomes :
          IF ~r.raised /\ r.status # HTTP_OK /\ gets = 0
          THEN /\ response' = r
               /\ gets' = gets + 1
               /\ trace' = Append(trace, "get")
               /\ UNCHANGED <<pc, failedAt, texts, output_path, i, lineNo, lines,
                              words, text, fontPresent, saved>>
          ELSE fetch_result(r)

\* fetch_texts(url) (lines 82-88, called at line 94)
fetch_texts ==
    /\ pc = "main"
    /\ \E r \in GetOutcomes : fetch_result(r)

\* for text in strings (lines 17-22): analyze the next text and split the
\* output into lines
for_text ==
    /\ pc = "analyze"
    /\ IF texts.kind # "array"
       THEN /\ Fail("analyze")
            /\ UNCHANGED <<lines, lineNo>>
       ELSE /\ i <= Len(texts.items)
            /\ lines' = split(parse(texts.items[i]), NL)
            /\ lineNo' = 1
            /\ pc' = "lines"
            /\ failedAt' = failedAt
    /\ UNCHANGED <<response, gets, texts, output_path, i, words, text,
                   fontPresent, saved, trace>>

\* for_line keeping each word once
for_line_dedupe ==
    /\ pc = "lines"
    /\ words' = words \o SelectSeq(line_words(Head(lines)),
                                   LAMBDA w : \A k \in 1..Len(words) : words[k] # w)
    /\ lines' = Tail(lines)
    /\ IF Tail(lines) = <<>>
       THEN /\ pc' = "analyze"
            /\ i' = i + 1
            /\ lineNo' = lineNo
       ELSE /\ pc' = "lines"
            /\ i' = i
            /\ lineNo' = lineNo + 1
    /\ UNCHANGED <<response, gets, texts, output_path, text, fontPresent,
                   saved, trace, failedAt>>

\* for line in lines (lines 24-42): one line of the current text
for_line ==
    /\ pc = "lines"
    /\ words' = words \o line_words(Head(lines))
    /\ lines' = Tail(lines)
    /\ IF Tail(lines) = <<>>
       THEN /\ pc' = "analyze"
            /\ i' = i + 1
            /\ lineNo' = lineNo
       ELSE /\ pc' = "lines"
            /\ i' = i
            /\ lineNo' = lineNo + 1
    /\ UNCHANGED <<response, gets, texts, output_path, text, fontPresent,
                   saved, trace, failedAt>>

\* join_words without the test of line 57
join_words_always_render ==
    /\ pc = "analyze"
    /\ texts.kind = "array"
    /\ i > Len(texts.items)
    /\ text' = join(words, SPACE)
    /\ trace' = Append(trace, "analyze")
    /\ pc' = "render"
    /\ UNCHANGED <<response, gets, texts, output_path, i, lineNo, lines, words,
                   fontPresent, saved, failedAt>>

\* the loop is over (line 44): join the words and stop if there is nothing
\* to draw (lines 55-59)
join_words ==
    /\ pc = "analyze"
    /\ texts.kind = "array"
    /\ i > Len(texts.items)
    /\ text' = join(words, SPACE)
    /\ IF strip(text') = <<>>
       THEN /\ trace' = trace \o <<"analyze", "print no words">>
            /\ pc' = "done"
       ELSE /\ trace' = Append(trace, "analyze")
            /\ pc' = "render"
    /\ UNCHANGED <<response, gets, texts, output_path, i, lineNo, lines, words,
                   fontPresent, saved, failedAt>>

\* render with the exception of a missing font caught and reported
render_caught ==
    /\ pc = "render"
    /\ IF fontPresent
       THEN /\ trace' = Append(trace, "generate")
            /\ pc' = "save"
       ELSE /\ trace' = Append(trace, "print error")
            /\ pc' = "done"
    /\ UNCHANGED <<response, gets, texts, output_path, i, lineNo, lines, words,
                   text, fontPresent, saved, failedAt>>

\* WordCloud(...).generate(text) (lines 62-69): the font file is read here
render ==
    /\ pc = "render"
    /\ IF fontPresent
       THEN /\ trace' = Append(trace, "generate")
            /\ pc' = "save"
            /\ failedAt' = failedAt
       ELSE /\ Fail("render")
            /\ trace' = trace
    /\ UNCHANGED <<response, gets, texts, output_path, i, lineNo, lines, words,
                   text, fontPresent, saved>>

\* save writing to the default path whatever the caller asked for
save_default_path ==
    /\ pc = "save"
    /\ saved' = saved \cup {DefaultPath}
    /\ trace' = Append(trace, "savefig")
    /\ pc' = "show"
    /\ UNCHANGED <<response, gets, texts, output_path, i, lineNo, lines, words,
                   text, fontPresent, failedAt>>

\* plt.savefig(output_path, ...) (lines 72-76)
save ==
    /\ pc = "save"
    /\ saved' = saved \cup {output_path}
    /\ trace' = Append(trace, "savefig")
    /\ pc' = "show"
    /\ UNCHANGED <<response, gets, texts, output_path, i, lineNo, lines, words,
                   text, fontPresent, failedAt>>

\* plt.show() (line 77)
show ==
    /\ pc = "show"
    /\ trace' = Append(trace, "show")
    /\ pc' = "report"
    /\ UNCHANGED <<response, gets, texts, output_path, i, lineNo, lines, words,
                   text, fontPresent, saved, failedAt>>

\* the closing message (line 79)
report ==
    /\ pc = "report"
    /\ trace' = Append(trace, "print saved")
    /\ pc' = "done"
    /\ UNCHANGED <<response, gets, texts, output_path, i, lineNo, lines, words,
                   text, fontPresent, saved, failedAt>>

---------------------------------------------------------------------------
(* Specifications *)

\* the script run as a program (lines 91-95)
Init ==
    /\ pc = "main"
    /\ response = NoResponse
    /\ gets = 0
    /\ texts = Array(<<>>)
    /\ output_path = DefaultPath
    /\ i = 1
    /\ lineNo = 1
    /\ lines = <<>>
    /\ words = <<>>
    /\ text = <<>>
    /\ fontPresent \in BOOLEAN
    /\ saved = {}
    /\ trace = <<>>
    /\ failedAt = "none"

Next ==
    \/ fetch_texts
    \/ for_text
    \/ for_line
    \/ join_words
    \/ render
    \/ save
    \/ show
    \/ report

Spec == Init /\ [][Next]_vars

\* generate_wordcloud(strings, output_path) called by any caller (line 47)
InitCall ==
    /\ pc = "analyze"
    /\ response = NoResponse
    /\ gets = 0
    /\ texts \in JsonValues
    /\ output_path \in Paths
    /\ i = 1
    /\ lineNo = 1
    /\ lines = <<>>
    /\ words = <<>>
    /\ text = <<>>
    /\ fontPresent \in BOOLEAN
    /\ saved = {}
    /\ trace = <<>>
    /\ failedAt = "none"

NextCall ==
    \/ for_text
    \/ for_line
    \/ join_words
    \/ render
    \/ save
    \/ show
    \/ report

SpecCall == InitCall /\ [][NextCall]_vars

---------------------------------------------------------------------------
(* What the analyzer printed, for stating the properties: the fields of    *)
(* the line the inner loop is at, and the lines that qualify               *)

CurrentFields == OutputFields(texts.items[i])[lineNo]

\* the line just visited, while the inner loop is at a later line of the text
PreviousFields == OutputFields(texts.items[i])[lineNo - 1]

\* the first hyphen-delimited segment of field f is label (label has no hyphen)
FirstSegmentIs(f, label) ==
    /\ Len(label) <= Len(f)
    /\ \A k \in 1..Len(label) : f[k] = label[k]
    /\ Len(f) > Len(label) => f[Len(label) + 1] = "-"

\* at least 5 fields, and the first segment of field 4 is 名詞, 動詞 or 形容詞
Qualifies(fields) ==
    /\ Len(fields) >= 5
    /\ \E label \in {<<"mei", "shi">>, <<"dou", "shi">>, <<"kei", "you", "shi">>} :
          FirstSegmentIs(fields[5], label)

\* the surface words of the qualifying lines, in order
RECURSIVE KeptOfLines(_)
KeptOfLines(ls) ==
    IF ls = <<>> THEN <<>>
    ELSE (IF Qualifies(Head(ls)) THEN <<Head(ls)[1]>> ELSE <<>>)
         \o KeptOfLines(Tail(ls))

RECURSIVE KeptOfTexts(_)
KeptOfTexts(ts) ==
    IF ts = <<>> THEN <<>>
    ELSE KeptOfLines(OutputFields(Head(ts))) \o KeptOfTexts(Tail(ts))

NonBlank(s) == \E k \in 1..Len(s) : s[k] \notin {" ", "\t", "\n", "emsp"}

Occurs(e) == \E k \in 1..Len(trace) : trace[k] = e

Count(e) == Cardinality({k \in 1..Len(trace) : trace[k] = e})

\* the calls of generate_wordcloud, without those of fetch_texts
RenderTrace == SelectSeq(trace, LAMBDA e : e \notin {"get", "json", "print failed"})

IsPrefix(a, b) == Len(a) <= Len(b) /\ a = SubSeq(b, 1, Len(a))

FullOrder == <<"analyze", "generate", "savefig", "show", "print saved">>

\* the loops of analyze_strings are over and the blank test has been made
Tokenized ==
    \/ pc \in {"render", "save", "show", "report", "done"}
    \/ pc = "failed" /\ failedAt = "render"

\* the inner loop reads the lines the analyzer printed, one by one
GhostAligned ==
    pc = "lines" =>
        /\ lineNo + Len(lines) - 1 = Len(OutputFields(texts.items[i]))
        /\ Head(lines) = join(CurrentFields, "\t")

---------------------------------------------------------------------------
(* Properties *)

C2_ShortLineExcluded ==
    [][(pc = "lines" /\ Len(CurrentFields) < 5) => words' = words]_vars

\* a line of 4 fields, one of them a kept label, has been visited
C2_Witness ==
    /\ pc = "lines"
    /\ lineNo > 1
    /\ Len(PreviousFields) = 4
    /\ \E k \in 1..4 : PreviousFields[k] = <<"mei", "shi">>
    /\ words = <<>>

\* C3: the result is the order-preserving subsequence of the surface words
\* of the qualifying lines: texts in input order, lines in output order, one
\* entry per qualifying line, repeated words kept.
C3_OrderPreserved ==
    /\ Tokenized => words = KeptOfTexts(texts.items)
    /\ (pc = "analyze" /\ texts.kind = "array") =>
           words = KeptOfTexts(SubSeq(texts.items, 1, i - 1))
    /\ pc = "lines" =>
           words = KeptOfTexts(SubSeq(texts.items, 1, i - 1))
                   \o KeptOfLines(SubSeq(OutputFields(texts.items[i]), 1, lineNo - 1))

\* two texts gave three or more words, the first two the same word
C3_Witness ==
    /\ pc = "done"
    /\ Len(texts.items) = 2
    /\ texts.items[1] # texts.items[2]
    /\ Len(words) >= 3
    /\ words[1] = words[2]
    /\ words[Len(words)] # words[1]

\* C4: after a response whose status is not 200, fetch_texts has returned
\* the empty list without parsing the body and without raising; the body is
\* parsed only when the status is 200, and then the parsed body is returned.
C4_FetchByStatus ==
    (pc # "main" /\ ~response.raised) =>
        /\ response.status # 200 =>
               /\ texts = [kind |-> "array", items |-> <<>>]
               /\ ~Occurs("json")
               /\ failedAt # "fetch"
        /\ Occurs("json") => response.status = 200
        /\ (response.status = 200 /\ response.body.valid) =>
               /\ texts = response.body.value
               /\ failedAt # "fetch"

\* a 204 response carrying a JSON array of texts has been received
C4_Witness ==
    /\ pc = "analyze"
    /\ response.status = 204
    /\ response.body.valid
    /\ response.body.value.kind = "array"
    /\ response.body.value.items # <<>>
    /\ texts.items = <<>>

\* C5: when no word is left after filtering, the word cloud is not generated
\* and no file is written: the message is printed and the function returns.
C5_EmptySkipsRender ==
    (Tokenized /\ words = <<>>) =>
        /\ pc = "done"
        /\ saved = {}
        /\ ~Occurs("generate")
        /\ ~Occurs("savefig")
        /\ trace[Len(trace)] = "print no words"

\* texts were given and every word of them was filtered out
C5_Witness ==
    /\ pc = "done"
    /\ words = <<>>
    /\ texts.items # <<>>
    /\ \E k \in 1..Len(texts.items) : Morphemes(texts.items[k]) # <<>>

\* C6: after a response whose status is not 200 the run is not aborted: it
\* is at the tokenize and render stage with no texts, where the step that
\* finds nothing to draw can be taken, or it has ended normally after that
\* step; nothing is rendered and no file is written.
C6_NonOkRunCompletes ==
    (pc # "main" /\ ~response.raised /\ response.status # 200) =>
        /\ failedAt = "none"
        /\ saved = {}
        /\ texts = [kind |-> "array", items |-> <<>>]
        /\ \/ /\ pc = "analyze"
              /\ trace = <<"get", "print failed">>
              /\ ENABLED join_words
           \/ /\ pc = "done"
              /\ trace = <<"get", "print failed", "analyze", "print no words">>

\* a run that received a 404 has ended normally
C6_Witness ==
    /\ pc = "done"
    /\ ~response.raised
    /\ response.status = 404
    /\ failedAt = "none"

\* C7: an exception of the GET, a 200 body that is no JSON, a body that is
\* no list and a missing font file end the run, failed, at the step where
\* they occur; no step follows a failure and no image file is written after
\* one.
C7_FailuresEndRun ==
    [][/\ pc # "failed"
       /\ (pc = "main" /\ (response'.raised
                           \/ (response'.status = 200 /\ ~response'.body.valid))) =>
              (pc' = "failed" /\ failedAt' = "fetch" /\ saved' = {})
       /\ (pc = "analyze" /\ texts.kind # "array") =>
              (pc' = "failed" /\ failedAt' = "analyze" /\ saved' = {})
       /\ (pc = "render" /\ ~fontPresent) =>
              (pc' = "failed" /\ failedAt' = "render" /\ saved' = {}
               /\ trace' = trace)]_vars

\* the font file was missing when words were to be drawn
C7_Witness ==
    /\ pc = "failed"
    /\ failedAt = "render"
    /\ ~fontPresent
    /\ words # <<>>
    /\ saved = {}

\* C8: a run issues exactly one GET, whatever its outcome.
C8_SingleGet ==
    /\ gets = (IF pc = "main" THEN 0 ELSE 1)
    /\ Count("get") = gets

\* a run that received a 500 has ended after its one GET
C8_Witness ==
    /\ pc = "done"
    /\ response.status = 500
    /\ gets = 1

C10_NonIndependentExcluded ==
    [][(pc = "lines" /\ Len(CurrentFields) >= 5
        /\ Contains(CurrentFields[5], <<"hi", "ji", "ritsu">>)) =>
           words' = words]_vars

====
